---- MODULE Spec2Model ----
(***************************************************************************)
(* The chat widget of the portfolio site: one component instance per       *)
(* browser tab, all tabs sharing the origin's localStorage.  Each tab      *)
(* keeps its own reactive state; a write to localStorage that changes a    *)
(* key dispatches a storage event to every other tab that listens.         *)
(***************************************************************************)
EXTENDS Integers, Sequences, FiniteSets, TLC

\* ------------------------------------------------------------------ bounds
\* Spec and FairSpec: sendMessage calls, and records per response.
MaxSends == 2
MaxRecords == 1
\* SpecEnd: endChat calls.
MaxEnds == 2
\* SpecSession: sendMessage calls and endChat calls.
MaxSessionSends == 1
MaxSessionEnds == 1
\* SpecStream: sendMessage calls, and records per response.
MaxStreamSends == 1
MaxStreamRecords == 2
\* SpecCorrupt: sendMessage calls.
MaxCorruptSends == 1
\* Every specification: see QueueOk.
MaxQueue == 1

\* ------------------------------------------------------------- value sets
Tabs == {"A", "B"}
ThreadIds == {"T1"}
NONE == "none"
Feedbacks == {"good", "bad"}

\* Characters of a message text.  " " is the only whitespace character.
ContentChars == {"a", " "}
\* The text the user types (non-blank after trim).
UserTexts == {<<"a">>}
\* The pre-written fallback texts, each standing for one entry of the table.
WITTY_MESSAGES == {<<"W">>, <<"V">>}
\* "Failed to end chat session. Please try again."
FAILED_TO_END == <<"F">>

VARIABLES
    storage,                  \* localStorage: key -> stored value
    queue,                    \* per tab: storage events dispatched, not yet handled
    clock,                    \* per tab: how many messages the tab has stamped
    isClient,                 \* per tab
    listening,                \* per tab: the storage listener is registered
    isInitialLoading,         \* per tab
    messages,                 \* per tab
    loading,                  \* per tab
    threadId,                 \* per tab
    showFeedbackModal,        \* per tab
    feedback,                 \* per tab
    isEndingChat,             \* per tab
    pc,                       \* per tab: where sendMessage is suspended
    resp,                     \* per tab: the records of the response body
    wire,                     \* per tab: the part of resp not read yet
    buffer,                   \* per tab: sendMessage's buffer
    currentAssistantContent,  \* per tab: sendMessage's local
    assistantMessageAdded,    \* per tab: sendMessage's local
    resolveReqs,              \* the /thread/resolve requests sent, in order, with their answers
    listReqs,                 \* the /thread/listMessages requests sent, in order, with their answers
    sends,                    \* sendMessage calls since the initial state
    ends,                     \* endChat calls since the initial state
    stopped,                  \* the users have stopped acting
    from,                     \* flight map: the first argument of createCurvedPath
    to,                       \* flight map: the second argument of createCurvedPath
    path,                     \* flight map: the value createCurvedPath returned
    flights,                  \* flight map: props.flights
    isMapReady,               \* flight map
    isZooming,                \* flight map
    currentZoom,              \* flight map
    initialZoom,              \* flight map
    mapZoom,                  \* flight map: the zoom of the Leaflet map
    mapMinZoom,               \* flight map: the minimum zoom of the Leaflet map
    timers,                   \* flight map: the timeouts set and not yet run
    zoomTarget,               \* flight map: the zoom a zoom in progress ends at, or 0
    zooms,                    \* flight map: how many zooms the user has started
    zoomHandlers              \* flight map: the handlers of the zoom events are registered

chatVars == <<storage, queue, clock, isClient, listening, isInitialLoading, messages,
          loading, threadId, showFeedbackModal, feedback, isEndingChat, pc, resp,
          wire, buffer, currentAssistantContent, assistantMessageAdded,
          resolveReqs, listReqs, sends, ends, stopped>>

mapVars == <<from, to, path, flights, isMapReady, isZooming, currentZoom,
             initialZoom, mapZoom, mapMinZoom, timers, zoomTarget, zooms,
             zoomHandlers>>

vars == <<chatVars, mapVars>>

\* The flight map as it is constructed, without flights.
NoPoint == <<>>

TimelineIdle ==
    /\ from = NoPoint
    /\ to = NoPoint
    /\ path = <<>>
    /\ flights = <<>>
    /\ isMapReady = FALSE
    /\ isZooming = FALSE
    /\ currentZoom = 2
    /\ initialZoom = 2
    /\ mapZoom = 2
    /\ mapMinZoom = 2
    /\ timers = {}
    /\ zoomTarget = 0
    /\ zooms = 0
    /\ zoomHandlers = FALSE

\* ------------------------------------------------------- stored values
\* A value of localStorage: absent (getItem gives null), a plain string, or
\* the JSON text of an array of messages.
Null == [kind |-> "null"]
Str(s) == [kind |-> "str", s |-> s]

JSONstringify(msgs) == [kind |-> "array", items |-> msgs]

\* A parser that takes text that is not JSON for a value that is no array.
JSONparseLenient(v) ==
    IF v.kind = "null" THEN [ok |-> TRUE, isArray |-> TRUE, value |-> <<>>]
    ELSE IF v.kind = "array" THEN [ok |-> TRUE, isArray |-> TRUE, value |-> v.items]
    ELSE [ok |-> TRUE, isArray |-> FALSE, value |-> <<>>]

\* JSON.parse(v || "[]")
JSONparse(v) ==
    IF v.kind = "null" THEN [ok |-> TRUE, isArray |-> TRUE, value |-> <<>>]
    ELSE IF v.kind = "array" THEN [ok |-> TRUE, isArray |-> TRUE, value |-> v.items]
    ELSE [ok |-> FALSE, isArray |-> FALSE, value |-> <<>>]

FromStored(v) == IF v.kind = "str" THEN v.s ELSE NONE

Keys == {"chatMessages", "threadId", "chatEnding"}
EmptyStorage == [k \in Keys |-> Null]

\* ------------------------------------------------------------- strings
\* s.trim() === ""
IsBlank(s) == \A i \in 1..Len(s) : s[i] = " "

RECURSIVE Split(_)
\* s.split("\n")
Split(s) ==
    IF \A i \in 1..Len(s) : s[i] # "\n" THEN <<s>>
    ELSE LET k == CHOOSE i \in 1..Len(s) : s[i] = "\n" /\ \A j \in 1..(i-1) : s[j] # "\n"
         IN <<SubSeq(s, 1, k - 1)>> \o Split(SubSeq(s, k + 1, Len(s)))

Front(s) == SubSeq(s, 1, Len(s) - 1)
Last(s) == s[Len(s)]

\* A reader that keeps nothing of the last, unfinished line.
RetainedNone(lines) == <<>>

\* buffer = lines.pop() || "": the part after the last line end is kept for
\* the next read.
Retained(lines) == Last(lines)

\* One record of the response: the text {"choices":[{"delta":{"content":c}}]}
\* is written "{" c "}"; a record whose delta has no content is "{" "}".
EncodeRecord(c) == <<"{">> \o c \o <<"}", "\n">>

RECURSIVE Encode(_)
Encode(records) ==
    IF records = <<>> THEN <<>>
    ELSE EncodeRecord(Head(records)) \o Encode(Tail(records))

\* The characters of the content of a record: those of a message text, and
\* "W", which is the whole text of the fallback message <<"W">>.
ReplyChars == ContentChars \cup {"W"}

\* A line that is not JSON, and a line that is JSON without a choices array,
\* written as the records with these contents.
NOT_JSON == <<"!">>
NO_CHOICES == <<"?">>

\* JSON.parse(line) and parsed.choices[0]?.delta: anything that is not a whole
\* record throws.
ParseLine(line) ==
    IF /\ Len(line) >= 2
       /\ line[1] = "{"
       /\ line[Len(line)] = "}"
       /\ \A i \in 2..(Len(line) - 1) : line[i] \in ReplyChars
    THEN [ok |-> TRUE, content |-> SubSeq(line, 2, Len(line) - 1)]
    ELSE [ok |-> FALSE, content |-> <<>>]

\* ------------------------------------------------------------ messages
Msg(role, content, ts) == [role |-> role, content |-> content, timestamp |-> ts]

\* A list that grows at its head.
unshift(msgs, m) == <<m>> \o msgs

\* messages.value.push(m)
push(msgs, m) == Append(msgs, m)

\* The reading of Date.now() by tab t when it creates a message.  The code
\* compares timestamps for equality only, so a reading is modelled by the
\* pair of the tab and the number of messages it has stamped before.
Now(t, n) == <<t, n>>

isWittyMessage(msgs, index) ==
    LET msg == msgs[index] IN
    IF msg.role = "assistant" /\ msg.content \in WITTY_MESSAGES THEN TRUE
    ELSE IF msg.role = "user" /\ index < Len(msgs)
         THEN /\ msgs[index + 1].role = "assistant"
              /\ msgs[index + 1].content \in WITTY_MESSAGES
         ELSE FALSE

RECURSIVE FilterFrom(_, _)
FilterFrom(msgs, index) ==
    IF index > Len(msgs) THEN <<>>
    ELSE (IF isWittyMessage(msgs, index) THEN <<>> ELSE <<msgs[index]>>)
         \o FilterFrom(msgs, index + 1)

messagesToSave(msgs) == FilterFrom(msgs, 1)

\* ------------------------------------------------------- localStorage
\* The shared part of the state an operation threads through its steps.
World == [storage |-> storage, queue |-> queue]

\* localStorage.setItem / removeItem by tab t: a change of the key's value
\* dispatches a storage event to every other listening tab.
setItem(w, t, key, val) ==
    IF w.storage[key] = val THEN w
    ELSE [storage |-> [w.storage EXCEPT ![key] = val],
          queue |-> [u \in Tabs |->
                       IF u # t /\ listening[u]
                       THEN Append(w.queue[u], [key |-> key, newValue |-> val])
                       ELSE w.queue[u]]]

\* A removal that leaves the key in place.
removeItemKept(w, t, key) == w

removeItem(w, t, key) == setItem(w, t, key, Null)

\* The save of the older variant of the component, which stores the list
\* as it is.
saveMessagesUnfiltered(w, t, msgs, client) ==
    IF ~client THEN w
    ELSE setItem(w, t, "chatMessages", JSONstringify(msgs))

\* client is the value of isClient when the function runs.
saveMessagesToStorage(w, t, msgs, client) ==
    IF ~client THEN w
    ELSE setItem(w, t, "chatMessages", JSONstringify(messagesToSave(msgs)))

\* The two watchers on messages, run when the queued jobs are flushed, which
\* happens before the tab handles its next event.
watchMessages(w, t, msgs, client) ==
    saveMessagesToStorage(saveMessagesToStorage(w, t, msgs, client), t, msgs, client)

\* The bound on the events pending: a tab starts an operation that may write
\* only while every other tab has fewer than MaxQueue events to handle.
\* Handling an event is never held back.
QueueOk(t) == \A u \in Tabs \ {t} : Len(queue[u]) < MaxQueue

ChatUnmounted ==
    /\ storage = EmptyStorage
    /\ queue = [t \in Tabs |-> <<>>]
    /\ clock = [t \in Tabs |-> 0]
    /\ isClient = [t \in Tabs |-> FALSE]
    /\ listening = [t \in Tabs |-> FALSE]
    /\ isInitialLoading = [t \in Tabs |-> FALSE]
    /\ messages = [t \in Tabs |-> <<>>]
    /\ loading = [t \in Tabs |-> FALSE]
    /\ threadId = [t \in Tabs |-> NONE]
    /\ showFeedbackModal = [t \in Tabs |-> FALSE]
    /\ feedback = [t \in Tabs |-> NONE]
    /\ isEndingChat = [t \in Tabs |-> FALSE]
    /\ pc = [t \in Tabs |-> "idle"]
    /\ resp = [t \in Tabs |-> <<>>]
    /\ wire = [t \in Tabs |-> <<>>]
    /\ buffer = [t \in Tabs |-> <<>>]
    /\ currentAssistantContent = [t \in Tabs |-> <<>>]
    /\ assistantMessageAdded = [t \in Tabs |-> FALSE]
    /\ resolveReqs = <<>>
    /\ listReqs = <<>>
    /\ sends = 0
    /\ ends = 0
    /\ stopped = FALSE

Init == ChatUnmounted /\ TimelineIdle

\* ----------------------------------------------------------- onMounted
sendLocals == <<resp, wire, buffer, currentAssistantContent, assistantMessageAdded>>
endVars == <<showFeedbackModal, feedback, isEndingChat>>
counters == <<sends, ends, stopped>>

\* A condition that loads the history whenever a thread is stored.
ShouldLoadAlways(tid, stored) == tid # NONE

\* threadId.value && !storedMessages
ShouldLoad(tid, stored) == tid # NONE /\ stored = Null

\* onMounted up to its first suspension: the stored thread and messages are
\* loaded; the listener is registered at once unless the history has to be
\* fetched first.
Mount(t) ==
    /\ ~stopped
    /\ ~isClient[t]
    /\ LET stored == storage["chatMessages"]
           tid == FromStored(storage["threadId"])
           parsed == JSONparse(stored)
           msgs == IF stored # Null /\ parsed.ok THEN parsed.value ELSE <<>>
           fetch == ShouldLoad(tid, stored)
           w == watchMessages(World, t, msgs, TRUE)
       IN /\ QueueOk(t)
          /\ isClient' = [isClient EXCEPT ![t] = TRUE]
          /\ threadId' = [threadId EXCEPT ![t] = tid]
          /\ messages' = [messages EXCEPT ![t] = msgs]
          /\ isInitialLoading' = [isInitialLoading EXCEPT ![t] = fetch]
          /\ listening' = [listening EXCEPT ![t] = ~fetch]
          /\ listReqs' = IF fetch
                         THEN Append(listReqs, [tab |-> t, threadId |-> tid,
                                                answer |-> "pending"])
                         ELSE listReqs
          /\ storage' = w.storage
          /\ queue' = w.queue
    /\ UNCHANGED <<clock, loading, pc, resolveReqs>>
    /\ UNCHANGED <<sendLocals, endVars, counters>>
    /\ UNCHANGED mapVars

\* The answer to tab t's pending listMessages request is recorded.
Loaded(t, answer) ==
    [i \in DOMAIN listReqs |->
       IF listReqs[i].tab = t /\ listReqs[i].answer = "pending"
       THEN [listReqs[i] EXCEPT !.answer = answer]
       ELSE listReqs[i]]

\* messagesData.map(...): the messages of the thread, stamped by the tab.
Stamp(t, data) ==
    [i \in DOMAIN data |-> Msg(data[i].role, data[i].content, Now(t, clock[t] + i - 1))]

\* The listMessages request is answered OK with an array: the tab takes the
\* messages of the thread and saves them; then the listener is registered.
LoadOk(t, data) ==
    /\ isClient[t] /\ isInitialLoading[t]
    /\ LET msgs == Stamp(t, data)
           w == watchMessages(saveMessagesToStorage(World, t, msgs, isClient[t]),
                              t, msgs, isClient[t])
       IN /\ QueueOk(t)
          /\ messages' = [messages EXCEPT ![t] = msgs]
          /\ storage' = w.storage
          /\ queue' = w.queue
    /\ clock' = [clock EXCEPT ![t] = @ + Len(data)]
    /\ isInitialLoading' = [isInitialLoading EXCEPT ![t] = FALSE]
    /\ listening' = [listening EXCEPT ![t] = TRUE]
    /\ listReqs' = Loaded(t, "ok")
    /\ UNCHANGED <<isClient, loading, threadId, pc, resolveReqs>>
    /\ UNCHANGED <<sendLocals, endVars, counters>>
    /\ UNCHANGED mapVars

\* localStorage.removeItem("threadId") of the three reset branches.
ResetThread(w, t) == removeItem(w, t, "threadId")

\* The listMessages request rejects, is answered with a status that is not
\* OK, or with data that is no array: the tab resets to a fresh state; then
\* the listener is registered.
LoadFail(t) ==
    /\ isClient[t] /\ isInitialLoading[t]
    /\ \E how \in {"rejected", "status", "invalid"} :
         LET w == watchMessages(ResetThread(World, t), t, <<>>, isClient[t])
         IN /\ QueueOk(t)
            /\ storage' = w.storage
            /\ queue' = w.queue
            /\ listReqs' = Loaded(t, IF how = "invalid" THEN "invalid" ELSE "failed")
    /\ threadId' = [threadId EXCEPT ![t] = NONE]
    /\ messages' = [messages EXCEPT ![t] = <<>>]
    /\ isInitialLoading' = [isInitialLoading EXCEPT ![t] = FALSE]
    /\ listening' = [listening EXCEPT ![t] = TRUE]
    /\ UNCHANGED <<clock, isClient, loading, pc, resolveReqs>>
    /\ UNCHANGED <<sendLocals, endVars, counters>>
    /\ UNCHANGED mapVars

\* --------------------------------------------------------- sendMessage
\* The values of pc at which no sendMessage call is in progress: none was
\* made yet, or the last one returned past the loop or past the catch block.
Returned == {"idle", "done", "failed"}

\* sendMessage up to the fetch: the user message is pushed and saved.
SendStart(t, text) ==
    /\ ~stopped
    /\ isClient[t] /\ ~loading[t] /\ ~isInitialLoading[t]
    /\ pc[t] \in Returned
    /\ ~IsBlank(text)
    /\ LET msgs == push(messages[t], Msg("user", text, Now(t, clock[t])))
           w == watchMessages(World, t, msgs, isClient[t])
       IN /\ QueueOk(t)
          /\ messages' = [messages EXCEPT ![t] = msgs]
          /\ storage' = w.storage
          /\ queue' = w.queue
    /\ clock' = [clock EXCEPT ![t] = @ + 1]
    /\ loading' = [loading EXCEPT ![t] = TRUE]
    /\ currentAssistantContent' = [currentAssistantContent EXCEPT ![t] = <<>>]
    /\ assistantMessageAdded' = [assistantMessageAdded EXCEPT ![t] = FALSE]
    /\ pc' = [pc EXCEPT ![t] = "fetching"]
    /\ sends' = sends + 1
    /\ UNCHANGED <<isClient, listening, isInitialLoading, threadId, resp, wire, buffer>>
    /\ UNCHANGED <<endVars, resolveReqs, ends, stopped>>
    /\ UNCHANGED listReqs
    /\ UNCHANGED mapVars

\* A catch block that compares the content received with "" untrimmed.
CatchSendUntrimmed(t, st, witty) ==
    IF ~assistantMessageAdded[t]
    THEN LET msgs == push(st.msgs, Msg("assistant", witty, Now(t, st.clock)))
         IN [msgs |-> msgs, clock |-> st.clock + 1,
             w |-> watchMessages(st.w, t, msgs, isClient[t])]
    ELSE IF currentAssistantContent[t] = <<>>
    THEN IF st.msgs = <<>> THEN st
         ELSE LET msgs == [st.msgs EXCEPT ![Len(st.msgs)].content = witty]
              IN [msgs |-> msgs, clock |-> st.clock,
                  w |-> watchMessages(st.w, t, msgs, isClient[t])]
    ELSE [msgs |-> st.msgs, clock |-> st.clock,
          w |-> watchMessages(st.w, t, st.msgs, isClient[t])]

\* The catch block of sendMessage, with the fallback text drawn; st holds the
\* messages, the world and the clock it works on.  Writing the content of the
\* last message of an empty list throws out of the block.
CatchSend(t, st, witty) ==
    IF ~assistantMessageAdded[t]
    THEN LET msgs == push(st.msgs, Msg("assistant", witty, Now(t, st.clock)))
         IN [msgs |-> msgs, clock |-> st.clock + 1,
             w |-> watchMessages(st.w, t, msgs, isClient[t])]
    ELSE IF IsBlank(currentAssistantContent[t])
    THEN IF st.msgs = <<>> THEN st
         ELSE LET msgs == [st.msgs EXCEPT ![Len(st.msgs)].content = witty]
              IN [msgs |-> msgs, clock |-> st.clock,
                  w |-> watchMessages(st.w, t, msgs, isClient[t])]
    ELSE [msgs |-> st.msgs, clock |-> st.clock,
          w |-> watchMessages(st.w, t, st.msgs, isClient[t])]

\* A finally block that leaves loading as it is.
FinishSendLoading(t, how) ==
    /\ loading' = loading
    /\ pc' = [pc EXCEPT ![t] = how]
    /\ resp' = [resp EXCEPT ![t] = <<>>]
    /\ wire' = [wire EXCEPT ![t] = <<>>]
    /\ buffer' = [buffer EXCEPT ![t] = <<>>]

\* The finally block of sendMessage; how tells whether the catch block ran.
FinishSend(t, how) ==
    /\ loading' = [loading EXCEPT ![t] = FALSE]
    /\ pc' = [pc EXCEPT ![t] = how]
    /\ resp' = [resp EXCEPT ![t] = <<>>]
    /\ wire' = [wire EXCEPT ![t] = <<>>]
    /\ buffer' = [buffer EXCEPT ![t] = <<>>]

\* The request fails before a body is read: fetch rejects, the status is not
\* OK, or the response has no body.
FetchFail(t, witty) ==
    /\ pc[t] = "fetching"
    /\ witty \in WITTY_MESSAGES
    /\ \E how \in {"rejected", "status", "nobody"} :
         LET r == CatchSend(t, [msgs |-> messages[t], clock |-> clock[t], w |-> World], witty)
         IN /\ QueueOk(t)
            /\ messages' = [messages EXCEPT ![t] = r.msgs]
            /\ clock' = [clock EXCEPT ![t] = r.clock]
            /\ storage' = r.w.storage
            /\ queue' = r.w.queue
    /\ FinishSend(t, "failed")
    /\ UNCHANGED <<isClient, listening, isInitialLoading, threadId>>
    /\ UNCHANGED <<currentAssistantContent, assistantMessageAdded>>
    /\ UNCHANGED <<endVars, resolveReqs, counters>>
    /\ UNCHANGED listReqs
    /\ UNCHANGED mapVars

\* The response arrives with a body; header is the lb-thread-id header (NONE
\* when absent), records the records the body carries and body its text.
Respond(t, header, records, body) ==
    /\ pc[t] = "fetching"
    /\ LET w == IF header # NONE /\ isClient[t]
                THEN setItem(World, t, "threadId", Str(header))
                ELSE World
       IN /\ QueueOk(t)
          /\ storage' = w.storage
          /\ queue' = w.queue
    /\ threadId' = [threadId EXCEPT ![t] = IF header # NONE /\ isClient[t]
                                            THEN header ELSE @]
    /\ resp' = [resp EXCEPT ![t] = records]
    /\ wire' = [wire EXCEPT ![t] = body]
    /\ buffer' = [buffer EXCEPT ![t] = <<>>]
    /\ pc' = [pc EXCEPT ![t] = "streaming"]
    /\ UNCHANGED <<clock, isClient, listening, isInitialLoading, messages, loading>>
    /\ UNCHANGED <<currentAssistantContent, assistantMessageAdded>>
    /\ UNCHANGED <<endVars, resolveReqs, counters>>
    /\ UNCHANGED listReqs
    /\ UNCHANGED mapVars

\* A response whose body ends every record with a line end.
FetchOk(t, header, records) == Respond(t, header, records, Encode(records))

\* A loop body that answers a line it cannot parse with a fallback message.
ProcessLineThrowing(t, st, line) ==
    IF IsBlank(line) THEN st
    ELSE LET parsed == ParseLine(line) IN
    IF ~parsed.ok
    THEN LET msgs == push(st.msgs, Msg("assistant", <<"W">>, Now(t, st.clock)))
         IN [msgs |-> msgs, content |-> st.content, added |-> st.added,
             clock |-> st.clock + 1, w |-> watchMessages(st.w, t, msgs, isClient[t])]
    ELSE IF parsed.content = <<>> THEN st
    ELSE LET pushed == IF st.added THEN st.msgs
                       ELSE push(st.msgs, Msg("assistant", <<>>, Now(t, st.clock)))
             content == st.content \o parsed.content
             clk == IF st.added THEN st.clock ELSE st.clock + 1
         IN IF pushed = <<>>
            THEN [st EXCEPT !.content = content]
            ELSE LET msgs == [pushed EXCEPT ![Len(pushed)].content = content]
                 IN [msgs |-> msgs, content |-> content, added |-> TRUE, clock |-> clk,
                     w |-> watchMessages(st.w, t, msgs, isClient[t])]

\* The body of the for loop for one line; st holds the messages, the
\* assistant content, the added flag, the clock and the world.
ProcessLine(t, st, line) ==
    IF IsBlank(line) THEN st
    ELSE LET parsed == ParseLine(line) IN
    IF ~parsed.ok \/ parsed.content = <<>> THEN st
    ELSE LET pushed == IF st.added THEN st.msgs
                       ELSE push(st.msgs, Msg("assistant", <<>>, Now(t, st.clock)))
             content == st.content \o parsed.content
             clk == IF st.added THEN st.clock ELSE st.clock + 1
         IN IF pushed = <<>>
            THEN [st EXCEPT !.content = content]
            ELSE LET msgs == [pushed EXCEPT ![Len(pushed)].content = content]
                 IN [msgs |-> msgs, content |-> content, added |-> TRUE, clock |-> clk,
                     w |-> watchMessages(st.w, t, msgs, isClient[t])]

RECURSIVE ProcessLines(_, _, _)
ProcessLines(t, st, lines) ==
    IF lines = <<>> THEN st
    ELSE ProcessLines(t, ProcessLine(t, st, Head(lines)), Tail(lines))

\* One reader.read() that delivers the next n characters of the body.
ReadChunk(t, n) ==
    /\ pc[t] = "streaming"
    /\ n \in 1..Len(wire[t])
    /\ LET lines == Split(buffer[t] \o SubSeq(wire[t], 1, n))
           st == ProcessLines(t, [msgs |-> messages[t],
                                  content |-> currentAssistantContent[t],
                                  added |-> assistantMessageAdded[t],
                                  clock |-> clock[t], w |-> World], Front(lines))
       IN /\ QueueOk(t)
          /\ buffer' = [buffer EXCEPT ![t] = Retained(lines)]
          /\ messages' = [messages EXCEPT ![t] = st.msgs]
          /\ currentAssistantContent' = [currentAssistantContent EXCEPT ![t] = st.content]
          /\ assistantMessageAdded' = [assistantMessageAdded EXCEPT ![t] = st.added]
          /\ clock' = [clock EXCEPT ![t] = st.clock]
          /\ storage' = st.w.storage
          /\ queue' = st.w.queue
    /\ wire' = [wire EXCEPT ![t] = SubSeq(wire[t], n + 1, Len(wire[t]))]
    /\ UNCHANGED <<isClient, listening, isInitialLoading, loading, threadId, pc, resp>>
    /\ UNCHANGED <<endVars, resolveReqs, counters>>
    /\ UNCHANGED listReqs
    /\ UNCHANGED mapVars

\* reader.read() reports done: the loop is left, and the finally block runs.
ReadDone(t) ==
    /\ pc[t] = "streaming"
    /\ wire[t] = <<>>
    /\ FinishSend(t, "done")
    /\ UNCHANGED <<storage, queue, clock, isClient, listening, isInitialLoading>>
    /\ UNCHANGED <<messages, threadId, currentAssistantContent, assistantMessageAdded>>
    /\ UNCHANGED <<endVars, resolveReqs, counters>>
    /\ UNCHANGED listReqs
    /\ UNCHANGED mapVars

\* reader.read() throws: the catch block, then the finally block.
ReadFail(t, witty) ==
    /\ pc[t] = "streaming"
    /\ witty \in WITTY_MESSAGES
    /\ LET r == CatchSend(t, [msgs |-> messages[t], clock |-> clock[t], w |-> World], witty)
         IN /\ QueueOk(t)
            /\ messages' = [messages EXCEPT ![t] = r.msgs]
            /\ clock' = [clock EXCEPT ![t] = r.clock]
            /\ storage' = r.w.storage
            /\ queue' = r.w.queue
    /\ FinishSend(t, "failed")
    /\ UNCHANGED <<isClient, listening, isInitialLoading, threadId>>
    /\ UNCHANGED <<currentAssistantContent, assistantMessageAdded>>
    /\ UNCHANGED <<endVars, resolveReqs, counters>>
    /\ UNCHANGED listReqs
    /\ UNCHANGED mapVars

\* ------------------------------------------------------------ end flow
endChat(t) ==
    /\ ~stopped
    /\ isClient[t] /\ ~isInitialLoading[t]
    /\ ~(isEndingChat[t] \/ showFeedbackModal[t] \/ threadId[t] = NONE)
    /\ LET w == IF isClient[t] THEN setItem(World, t, "chatEnding", Str("true"))
                ELSE World
       IN /\ QueueOk(t)
          /\ storage' = w.storage
          /\ queue' = w.queue
    /\ showFeedbackModal' = [showFeedbackModal EXCEPT ![t] = TRUE]
    /\ feedback' = [feedback EXCEPT ![t] = NONE]
    /\ ends' = ends + 1
    /\ UNCHANGED <<clock, isClient, listening, isInitialLoading, messages, loading>>
    /\ UNCHANGED <<threadId, isEndingChat, pc, sendLocals, resolveReqs, sends, stopped>>
    /\ UNCHANGED listReqs
    /\ UNCHANGED mapVars

\* A click on one of the two feedback buttons of the modal.
SetFeedback(t, f) ==
    /\ ~stopped
    /\ showFeedbackModal[t] /\ ~isInitialLoading[t]
    /\ feedback[t] # f
    /\ feedback' = [feedback EXCEPT ![t] = f]
    /\ UNCHANGED <<storage, queue, clock, isClient, listening, isInitialLoading>>
    /\ UNCHANGED <<messages, loading, threadId, showFeedbackModal, isEndingChat, pc>>
    /\ UNCHANGED <<sendLocals, resolveReqs, counters>>
    /\ UNCHANGED listReqs
    /\ UNCHANGED mapVars

closeFeedbackModal(t) ==
    /\ ~stopped
    /\ showFeedbackModal[t] /\ ~isInitialLoading[t]
    /\ showFeedbackModal' = [showFeedbackModal EXCEPT ![t] = FALSE]
    /\ feedback' = [feedback EXCEPT ![t] = NONE]
    /\ UNCHANGED <<storage, queue, clock, isClient, listening, isInitialLoading>>
    /\ UNCHANGED <<messages, loading, threadId, isEndingChat, pc>>
    /\ UNCHANGED <<sendLocals, resolveReqs, counters>>
    /\ UNCHANGED listReqs
    /\ UNCHANGED mapVars

\* A submit handler that does not look at feedback.
submitFeedbackUnset(t) ==
    /\ ~stopped
    /\ showFeedbackModal[t] /\ ~isInitialLoading[t]
    /\ ~(isEndingChat[t] \/ threadId[t] = NONE)
    /\ isEndingChat' = [isEndingChat EXCEPT ![t] = TRUE]
    /\ resolveReqs' = Append(resolveReqs,
                             [tab |-> t, threadId |-> threadId[t],
                              feedback |-> feedback[t], answer |-> "pending"])
    /\ UNCHANGED <<storage, queue, clock, isClient, listening, isInitialLoading>>
    /\ UNCHANGED <<messages, loading, threadId, showFeedbackModal, feedback, pc>>
    /\ UNCHANGED <<sendLocals, counters>>
    /\ UNCHANGED listReqs
    /\ UNCHANGED mapVars

\* submitFeedback up to the fetch: the resolve request is sent.
submitFeedback(t) ==
    /\ ~stopped
    /\ showFeedbackModal[t] /\ ~isInitialLoading[t]
    /\ ~(feedback[t] = NONE \/ isEndingChat[t] \/ threadId[t] = NONE)
    /\ isEndingChat' = [isEndingChat EXCEPT ![t] = TRUE]
    /\ resolveReqs' = Append(resolveReqs,
                             [tab |-> t, threadId |-> threadId[t],
                              feedback |-> feedback[t], answer |-> "pending"])
    /\ UNCHANGED <<storage, queue, clock, isClient, listening, isInitialLoading>>
    /\ UNCHANGED <<messages, loading, threadId, showFeedbackModal, feedback, pc>>
    /\ UNCHANGED <<sendLocals, counters>>
    /\ UNCHANGED listReqs
    /\ UNCHANGED mapVars

\* The answer to tab t's pending resolve request is recorded.
Answered(t, answer) ==
    [i \in DOMAIN resolveReqs |->
       IF resolveReqs[i].tab = t /\ resolveReqs[i].answer = "pending"
       THEN [resolveReqs[i] EXCEPT !.answer = answer]
       ELSE resolveReqs[i]]

\* A finally block that leaves isEndingChat set.
FinishSubmitEnding(t) ==
    /\ isEndingChat' = isEndingChat
    /\ showFeedbackModal' = [showFeedbackModal EXCEPT ![t] = FALSE]
    /\ feedback' = [feedback EXCEPT ![t] = NONE]

\* The finally block of submitFeedback.
FinishSubmit(t) ==
    /\ isEndingChat' = [isEndingChat EXCEPT ![t] = FALSE]
    /\ showFeedbackModal' = [showFeedbackModal EXCEPT ![t] = FALSE]
    /\ feedback' = [feedback EXCEPT ![t] = NONE]

\* The resolve request is answered OK: the session is reset.
ResolveOk(t) ==
    /\ isEndingChat[t]
    /\ LET w1 == removeItem(removeItem(World, t, "threadId"), t, "chatMessages")
           w == watchMessages(w1, t, <<>>, isClient[t])
       IN /\ QueueOk(t)
          /\ storage' = w.storage
          /\ queue' = w.queue
    /\ threadId' = [threadId EXCEPT ![t] = NONE]
    /\ messages' = [messages EXCEPT ![t] = <<>>]
    /\ FinishSubmit(t)
    /\ resolveReqs' = Answered(t, "ok")
    /\ UNCHANGED <<clock, isClient, listening, isInitialLoading, loading, pc>>
    /\ UNCHANGED <<sendLocals, counters>>
    /\ UNCHANGED listReqs
    /\ UNCHANGED mapVars

\* The resolve request rejects or is answered with a status that is not OK.
ResolveFail(t) ==
    /\ isEndingChat[t]
    /\ LET msgs == push(messages[t], Msg("assistant", FAILED_TO_END, Now(t, clock[t])))
           w == watchMessages(World, t, msgs, isClient[t])
       IN /\ QueueOk(t)
          /\ messages' = [messages EXCEPT ![t] = msgs]
          /\ storage' = w.storage
          /\ queue' = w.queue
    /\ clock' = [clock EXCEPT ![t] = @ + 1]
    /\ FinishSubmit(t)
    /\ resolveReqs' = Answered(t, "failed")
    /\ UNCHANGED <<isClient, listening, isInitialLoading, loading, threadId, pc>>
    /\ UNCHANGED <<sendLocals, counters>>
    /\ UNCHANGED listReqs
    /\ UNCHANGED mapVars

\* -------------------------------------------------- handleStorageChange
\* A reconciliation that adds the stored list to the tab's own.
ReconcileAdding(own, newMessages) == own \o newMessages

\* messages.value = newMessages: the tab's list is replaced by the stored one.
Reconcile(own, newMessages) == newMessages

\* The tab handles the oldest storage event dispatched to it.
handleStorageChange(t) ==
    /\ listening[t] /\ isClient[t]
    /\ queue[t] # <<>>
    /\ LET event == Head(queue[t])
           w0 == [storage |-> storage, queue |-> [queue EXCEPT ![t] = Tail(@)]]
       IN CASE event.key = "chatMessages" ->
                 LET parsed == JSONparse(event.newValue)
                     msgs == IF parsed.ok /\ parsed.isArray
                             THEN Reconcile(messages[t], parsed.value)
                             ELSE IF parsed.ok THEN messages[t] ELSE <<>>
                     w == IF parsed.ok /\ ~parsed.isArray THEN w0
                          ELSE watchMessages(w0, t, msgs, isClient[t])
                 IN /\ messages' = [messages EXCEPT ![t] = msgs]
                    /\ storage' = w.storage
                    /\ queue' = w.queue
                    /\ UNCHANGED <<threadId, showFeedbackModal, feedback>>
            [] event.key = "chatEnding" ->
                 /\ IF event.newValue = Str("true") /\ showFeedbackModal[t]
                    THEN /\ showFeedbackModal' = [showFeedbackModal EXCEPT ![t] = FALSE]
                         /\ feedback' = [feedback EXCEPT ![t] = NONE]
                    ELSE UNCHANGED <<showFeedbackModal, feedback>>
                 /\ storage' = w0.storage
                 /\ queue' = w0.queue
                 /\ UNCHANGED <<threadId, messages>>
            [] event.key = "threadId" ->
                 /\ threadId' = [threadId EXCEPT ![t] = FromStored(event.newValue)]
                 /\ IF event.newValue = Null
                    THEN LET w == watchMessages(removeItem(w0, t, "chatEnding"), t,
                                                <<>>, isClient[t])
                         IN /\ messages' = [messages EXCEPT ![t] = <<>>]
                            /\ storage' = w.storage
                            /\ queue' = w.queue
                    ELSE /\ storage' = w0.storage
                         /\ queue' = w0.queue
                         /\ UNCHANGED messages
                 /\ UNCHANGED <<showFeedbackModal, feedback>>
    /\ UNCHANGED <<clock, isClient, listening, isInitialLoading, loading, isEndingChat>>
    /\ UNCHANGED <<pc, sendLocals, resolveReqs, counters>>
    /\ UNCHANGED listReqs
    /\ UNCHANGED mapVars

\* ------------------------------------------------------ specifications
\* The responses of the chat endpoint: up to n records drawn from recs.
Responses(recs, n) == UNION {[1..k -> recs] : k \in 0..n}

\* Records that carry one character of content, and the record without any.
Records == {<<c>> : c \in ContentChars}
NoContent == <<>>

\* The lengths of the next chunk that end at a line end or at the end of
\* the body.
LineAligned(s) == {n \in 1..Len(s) : s[n] = "\n" \/ n = Len(s)}

\* The fallback text drawn in the specifications with several tabs.
OneWitty == {<<"W">>}

\* The users stop acting once no call is in progress.
Stop ==
    /\ ~stopped
    /\ \A t \in Tabs : pc[t] \in Returned /\ ~isEndingChat[t]
    /\ stopped' = TRUE
    /\ UNCHANGED <<storage, queue, clock, isClient, listening, isInitialLoading>>
    /\ UNCHANGED <<messages, loading, threadId, pc, resolveReqs, sends, ends>>
    /\ UNCHANGED <<sendLocals, endVars>>
    /\ UNCHANGED listReqs
    /\ UNCHANGED mapVars

\* Tabs that open on an empty store and send messages, with whole lines per
\* read.
Next ==
    \/ \E t \in Tabs : Mount(t)
    \/ \E t \in Tabs, text \in UserTexts : sends < MaxSends /\ SendStart(t, text)
    \/ \E t \in Tabs, witty \in OneWitty : FetchFail(t, witty)
    \/ \E t \in Tabs, header \in ThreadIds \cup {NONE} :
          \E records \in Responses({<<"a">>}, MaxRecords) : FetchOk(t, header, records)
    \/ \E t \in Tabs : \E n \in LineAligned(wire[t]) : ReadChunk(t, n)
    \/ \E t \in Tabs : ReadDone(t)
    \/ \E t \in Tabs, witty \in OneWitty : ReadFail(t, witty)
    \/ \E t \in Tabs : handleStorageChange(t)

Spec == Init /\ [][Next]_vars

\* A session both tabs share: tab A has sent one message and received the
\* reply on thread T1, tab B has handled the storage events.  Spec reaches
\* this state (but for the counters, which restart here).
Conversation ==
    <<Msg("user", <<"a">>, Now("A", 0)), Msg("assistant", <<"a">>, Now("A", 1))>>

SessionEstablished ==
    /\ storage = [EmptyStorage EXCEPT !["chatMessages"] = JSONstringify(Conversation),
                                      !["threadId"] = Str("T1")]
    /\ queue = [t \in Tabs |-> <<>>]
    /\ clock = [t \in Tabs |-> IF t = "A" THEN Len(Conversation) ELSE 0]
    /\ isClient = [t \in Tabs |-> TRUE]
    /\ listening = [t \in Tabs |-> TRUE]
    /\ isInitialLoading = [t \in Tabs |-> FALSE]
    /\ messages = [t \in Tabs |-> Conversation]
    /\ loading = [t \in Tabs |-> FALSE]
    /\ threadId = [t \in Tabs |-> "T1"]
    /\ showFeedbackModal = [t \in Tabs |-> FALSE]
    /\ feedback = [t \in Tabs |-> NONE]
    /\ isEndingChat = [t \in Tabs |-> FALSE]
    /\ pc = [t \in Tabs |-> IF t = "A" THEN "done" ELSE "idle"]
    /\ resp = [t \in Tabs |-> <<>>]
    /\ wire = [t \in Tabs |-> <<>>]
    /\ buffer = [t \in Tabs |-> <<>>]
    /\ currentAssistantContent = [t \in Tabs |-> IF t = "A" THEN <<"a">> ELSE <<>>]
    /\ assistantMessageAdded = [t \in Tabs |-> t = "A"]
    /\ resolveReqs = <<>>
    /\ listReqs = <<>>
    /\ stopped = FALSE
    /\ TimelineIdle

InitSession ==
    /\ SessionEstablished
    /\ sends = 0
    /\ ends = 0

\* The tabs end the session, or give the attempt up.
NextEnd ==
    \/ \E t \in Tabs : ends < MaxEnds /\ endChat(t)
    \/ \E t \in Tabs, f \in Feedbacks : SetFeedback(t, f)
    \/ \E t \in Tabs : closeFeedbackModal(t)
    \/ \E t \in Tabs : submitFeedback(t)
    \/ \E t \in Tabs : ResolveOk(t)
    \/ \E t \in Tabs : ResolveFail(t)
    \/ \E t \in Tabs : handleStorageChange(t)

SpecEnd == InitSession /\ [][NextEnd]_vars

\* The session goes on: the tabs send, end the session, and handle events.
NextSession ==
    \/ \E t \in Tabs, text \in UserTexts : sends < MaxSessionSends /\ SendStart(t, text)
    \/ \E t \in Tabs, witty \in OneWitty : FetchFail(t, witty)
    \/ \E t \in Tabs, header \in ThreadIds \cup {NONE} :
          \E records \in Responses(Records, MaxRecords) : FetchOk(t, header, records)
    \/ \E t \in Tabs : \E n \in LineAligned(wire[t]) : ReadChunk(t, n)
    \/ \E t \in Tabs : ReadDone(t)
    \/ \E t \in Tabs, witty \in OneWitty : ReadFail(t, witty)
    \/ \E t \in Tabs : ends < MaxSessionEnds /\ endChat(t)
    \/ \E t \in Tabs, f \in Feedbacks : SetFeedback(t, f)
    \/ \E t \in Tabs : closeFeedbackModal(t)
    \/ \E t \in Tabs : submitFeedback(t)
    \/ \E t \in Tabs : ResolveOk(t)
    \/ \E t \in Tabs : ResolveFail(t)
    \/ \E t \in Tabs : handleStorageChange(t)

SpecSession == InitSession /\ [][NextSession]_vars

\* One tab alone, the body of the response cut into chunks at any place.
StreamTab == "A"

NextStream ==
    \/ Mount(StreamTab)
    \/ \E text \in UserTexts : sends < MaxStreamSends /\ SendStart(StreamTab, text)
    \/ \E witty \in WITTY_MESSAGES : FetchFail(StreamTab, witty)
    \/ \E header \in ThreadIds \cup {NONE} :
          \E records \in Responses(Records \cup {NoContent}, MaxStreamRecords) :
             FetchOk(StreamTab, header, records)
    \/ \E n \in 1..Len(wire[StreamTab]) : ReadChunk(StreamTab, n)
    \/ ReadDone(StreamTab)
    \/ \E witty \in WITTY_MESSAGES : ReadFail(StreamTab, witty)

SpecStream == Init /\ [][NextStream]_vars

\* Two mounted tabs whose requests all succeed, until the users stop; every
\* storage event dispatched to a tab is handled in the end.
InitFair ==
    /\ storage = [EmptyStorage EXCEPT !["chatMessages"] = JSONstringify(<<>>)]
    /\ queue = [t \in Tabs |-> <<>>]
    /\ clock = [t \in Tabs |-> 0]
    /\ isClient = [t \in Tabs |-> TRUE]
    /\ listening = [t \in Tabs |-> TRUE]
    /\ isInitialLoading = [t \in Tabs |-> FALSE]
    /\ messages = [t \in Tabs |-> <<>>]
    /\ loading = [t \in Tabs |-> FALSE]
    /\ threadId = [t \in Tabs |-> NONE]
    /\ showFeedbackModal = [t \in Tabs |-> FALSE]
    /\ feedback = [t \in Tabs |-> NONE]
    /\ isEndingChat = [t \in Tabs |-> FALSE]
    /\ pc = [t \in Tabs |-> "idle"]
    /\ resp = [t \in Tabs |-> <<>>]
    /\ wire = [t \in Tabs |-> <<>>]
    /\ buffer = [t \in Tabs |-> <<>>]
    /\ currentAssistantContent = [t \in Tabs |-> <<>>]
    /\ assistantMessageAdded = [t \in Tabs |-> FALSE]
    /\ resolveReqs = <<>>
    /\ listReqs = <<>>
    /\ sends = 0
    /\ ends = 0
    /\ stopped = FALSE
    /\ TimelineIdle

NextFair ==
    \/ \E t \in Tabs, text \in UserTexts : sends < MaxSends /\ SendStart(t, text)
    \/ \E t \in Tabs : \E records \in Responses({<<"a">>}, MaxRecords) :
          FetchOk(t, NONE, records)
    \/ \E t \in Tabs : \E n \in LineAligned(wire[t]) : ReadChunk(t, n)
    \/ \E t \in Tabs : ReadDone(t)
    \/ \E t \in Tabs : handleStorageChange(t)
    \/ Stop

FairSpec ==
    /\ InitFair
    /\ [][NextFair]_vars
    /\ \A t \in Tabs : WF_vars(handleStorageChange(t))

\* Text that is not JSON, and a script of the origin outside the tabs that
\* writes it under chatMessages: every listening tab is notified.
MALFORMED == Str("{")

Corrupt ==
    /\ storage["chatMessages"] # MALFORMED
    /\ \A u \in Tabs : Len(queue[u]) < MaxQueue
    /\ storage' = [storage EXCEPT !["chatMessages"] = MALFORMED]
    /\ queue' = [u \in Tabs |->
                   IF listening[u]
                   THEN Append(queue[u], [key |-> "chatMessages", newValue |-> MALFORMED])
                   ELSE queue[u]]
    /\ UNCHANGED <<clock, isClient, listening, isInitialLoading, messages, loading>>
    /\ UNCHANGED <<threadId, pc, resolveReqs, sendLocals, endVars, counters>>
    /\ UNCHANGED listReqs
    /\ UNCHANGED mapVars

\* Tabs that open and send while the stored list may be overwritten by text
\* that is not JSON.
NextCorrupt ==
    \/ \E t \in Tabs : Mount(t)
    \/ \E t \in Tabs, text \in UserTexts : sends < MaxCorruptSends /\ SendStart(t, text)
    \/ \E t \in Tabs : \E records \in Responses({<<"a">>}, MaxRecords) :
          FetchOk(t, NONE, records)
    \/ \E t \in Tabs : \E n \in LineAligned(wire[t]) : ReadChunk(t, n)
    \/ \E t \in Tabs : ReadDone(t)
    \/ \E t \in Tabs : handleStorageChange(t)
    \/ Corrupt

SpecCorrupt == Init /\ [][NextCorrupt]_vars

\* ------------------------------------------------------------ flight map
\* Numbers of the flight map are kept in hundredths of a degree, rounded
\* down; a point is <<lat, lng>>.
Deg(n) == n * 100
Abs(x) == IF x < 0 THEN -x ELSE x
Min(a, b) == IF a < b THEN a ELSE b
Max(a, b) == IF a > b THEN a ELSE b

RECURSIVE SqrtIn(_, _, _)
\* The largest r in lo..hi with r * r <= n.
SqrtIn(n, lo, hi) ==
    IF lo = hi THEN lo
    ELSE LET mid == (lo + hi + 1) \div 2
         IN IF mid * mid <= n THEN SqrtIn(n, mid, hi) ELSE SqrtIn(n, lo, mid - 1)

\* Math.sqrt
Sqrt(n) == SqrtIn(n, 0, 46340)

\* A path that leaves the destination where it is.
AdjustedLng2Plain(f, t) == t[2]

\* The longitude of the destination, shifted by 360 degrees when the way
\* west is the shorter one.
AdjustedLng2(f, t) ==
    LET lng1 == f[2]
        lng2 == t[2]
        eastwardDistance == Abs(lng2 - lng1)
        westwardDistance == Deg(360) - eastwardDistance
        shouldGoWestward == westwardDistance < eastwardDistance
    IN IF shouldGoWestward
       THEN IF lng2 > lng1 THEN lng2 - Deg(360) ELSE lng2 + Deg(360)
       ELSE lng2

AdjustedTo(f, t) == <<t[1], AdjustedLng2(f, t)>>

\* distance * distance, and distance
Distance2(f, t) ==
    LET dLat == t[1] - f[1]
        dLng == AdjustedLng2(f, t) - f[2]
    IN dLat * dLat + dLng * dLng

Distance(f, t) == Sqrt(Distance2(f, t))

\* Math.abs(adjustedLng2 - lng1) > Math.abs(lat2 - lat1)
EastWest(f, t) == Abs(AdjustedLng2(f, t) - f[2]) > Abs(t[1] - f[1])

\* The control point of the curve between two points at a distance.
ControlPointAt(f, t, distance) ==
    LET midLat == (f[1] + t[1]) \div 2
        midLng == (f[2] + AdjustedLng2(f, t)) \div 2
        curveFactor == Min((distance * 15) \div 100, Deg(20))
        eastWest == EastWest(f, t)
        curveOffset == IF eastWest
                       THEN IF midLat > 0 THEN curveFactor ELSE -curveFactor
                       ELSE (curveFactor * 3) \div 10
    IN <<midLat + (IF eastWest THEN curveOffset ELSE 0),
         midLng + (IF ~eastWest THEN curveOffset ELSE 0)>>

ControlPoint(f, t) == ControlPointAt(f, t, Distance(f, t))

\* Math.max(3, Math.min(Math.floor(distance / 10), 8))
SegmentsAt(distance) == Max(3, Min(distance \div Deg(10), 8))

Segments(f, t) == SegmentsAt(Distance(f, t))

\* The quadratic Bezier curve from a to b with control point c at i / n.
Bezier(a, c, b, i, n) ==
    ((n - i) * (n - i) * a + 2 * (n - i) * i * c + i * i * b) \div (n * n)

\* A loop that stops before i reaches segments.
SamplePointsOpen(f, t) ==
    LET distance == Distance(f, t)
        segments == SegmentsAt(distance)
        control == ControlPointAt(f, t, distance)
        adjustedLng2 == AdjustedLng2(f, t)
    IN [k \in 1..segments |->
          <<Bezier(f[1], control[1], t[1], k - 1, segments),
            Bezier(f[2], control[2], adjustedLng2, k - 1, segments)>>]

\* for (let i = 0; i <= segments; i++) points.push(...)
SamplePoints(f, t) ==
    LET distance == Distance(f, t)
        segments == SegmentsAt(distance)
        control == ControlPointAt(f, t, distance)
        adjustedLng2 == AdjustedLng2(f, t)
    IN [k \in 1..(segments + 1) |->
          <<Bezier(f[1], control[1], t[1], k - 1, segments),
            Bezier(f[2], control[2], adjustedLng2, k - 1, segments)>>]

createCurvedPath(f, t) ==
    IF Distance2(f, t) < Deg(5) * Deg(5) THEN <<f, AdjustedTo(f, t)>>
    ELSE LET points == SamplePoints(f, t)
         IN IF Len(points) > 2 THEN points ELSE <<f, AdjustedTo(f, t)>>

\* The pairs of points a path is drawn between, in degrees.
PathLats == {-60, -3, 0, 3, 60}
PathLngs == {-180, -120, -3, 0, 3, 120, 180}
PathPoints == {<<Deg(lat), Deg(lng)>> : lat \in PathLats, lng \in PathLngs}

\* One call of createCurvedPath, on any pair of points.
InitPath ==
    /\ ChatUnmounted
    /\ from \in PathPoints
    /\ to \in PathPoints
    /\ path = <<>>
    /\ flights = <<>>
    /\ isMapReady = FALSE
    /\ isZooming = FALSE
    /\ currentZoom = 2
    /\ initialZoom = 2
    /\ mapZoom = 2
    /\ mapMinZoom = 2
    /\ timers = {}
    /\ zoomTarget = 0
    /\ zooms = 0
    /\ zoomHandlers = FALSE

CurvePath ==
    /\ from # NoPoint /\ to # NoPoint
    /\ path = <<>>
    /\ path' = createCurvedPath(from, to)
    /\ UNCHANGED <<from, to, flights, isMapReady, isZooming, currentZoom>>
    /\ UNCHANGED <<initialZoom, mapZoom, mapMinZoom, timers, zoomTarget, zooms>>
    /\ UNCHANGED <<zoomHandlers, chatVars>>

NextPath == CurvePath

SpecPath == InitPath /\ [][NextPath]_vars

\* --------------------------------------------------- routes and airports
\* The airport table, <<lat, lng>> per code.
AIRPORT_COORDINATES ==
        "SIN" :> <<136, 10399>> @@
        "CGK" :> <<-613, 10665>> @@
        "BOS" :> <<4236, -7101>> @@
        "SFO" :> <<3762, -12238>> @@
        "DXB" :> <<2525, 5536>> @@
        "HKG" :> <<2230, 11391>> @@
        "IST" :> <<4126, 2874>> @@
        "NCE" :> <<4365, 721>> @@
        "LAX" :> <<3394, -11841>> @@
        "BLR" :> <<1294, 7766>> @@
        "MAA" :> <<1299, 8017>> @@
        "KNO" :> <<364, 9888>> @@
        "BKK" :> <<1369, 10075>> @@
        "PEN" :> <<529, 10027>> @@
        "ICN" :> <<3746, 12644>> @@
        "TPA" :> <<2797, -8254>> @@
        "ATL" :> <<3364, -8443>> @@
        "GRU" :> <<-2344, -4648>> @@
        "FCO" :> <<4180, 1223>> @@
        "FRA" :> <<5003, 856>> @@
        "MUC" :> <<4835, 1177>> @@
        "CDG" :> <<4900, 254>> @@
        "TXL" :> <<5255, 1328>> @@
        "MXP" :> <<4563, 872>> @@
        "AMS" :> <<5231, 476>> @@
        "HNL" :> <<2130, -15786>> @@
        "NRT" :> <<3576, 14038>> @@
        "TOY" :> <<3664, 13718>>

\* AIRPORT_COORDINATES[code] is truthy
Known(code) == code \in DOMAIN AIRPORT_COORDINATES

\* Math.min(...S) and Math.max(...S)
MinOf(S) == CHOOSE x \in S : \A y \in S : x <= y
MaxOf(S) == -MinOf({-x : x \in S})
\* `${origin}-${destination}`: the codes of the table hold no "-", so the
\* key is the pair.
routeKey(flight) == <<flight.origin, flight.destination>>
reverseKey(flight) == <<flight.destination, flight.origin>>

\* A lookup that knows the forward key only.
existingRouteForward(map, flight) ==
    {i \in DOMAIN map : map[i].key = routeKey(flight)}

\* routeMap.get(routeKey) || routeMap.get(reverseKey), as the positions of
\* the route found.
existingRoute(map, flight) ==
    IF \E i \in DOMAIN map : map[i].key = routeKey(flight)
    THEN {i \in DOMAIN map : map[i].key = routeKey(flight)}
    ELSE {i \in DOMAIN map : map[i].key = reverseKey(flight)}

\* A flight is left out when either of its airports is unknown.
Skipped(flight) == ~Known(flight.origin) \/ ~Known(flight.destination)

RECURSIVE routeMap(_)
\* The map of routes after the loop over the flights, in insertion order.
routeMap(fl) ==
    IF fl = <<>> THEN <<>>
    ELSE LET map == routeMap(Front(fl))
             flight == fl[Len(fl)]
         IN IF Skipped(flight) THEN map
            ELSE IF existingRoute(map, flight) # {}
            THEN [i \in DOMAIN map |->
                    IF i \in existingRoute(map, flight)
                    THEN [map[i] EXCEPT !.count = @ + 1,
                                        !.flights = Append(@, flight)]
                    ELSE map[i]]
            ELSE Append(map,
                        [key |-> routeKey(flight),
                         from |-> flight.origin,
                         to |-> flight.destination,
                         count |-> 1,
                         flights |-> <<flight>>,
                         coordinates |->
                            createCurvedPath(AIRPORT_COORDINATES[flight.origin],
                                             AIRPORT_COORDINATES[flight.destination]),
                         opacity |-> <<4, 10>>])

\* An opacity that grows with the count alone: 0.3 + count * 0.7.
OpacityPerFlight(count, maxCount) == <<3 + 7 * count, 10>>

\* Math.min(0.3 + (count / maxCount) * 0.7, 1.0), as <<numerator, denominator>>.
Opacity(count, maxCount) ==
    <<Min(3 * maxCount + 7 * count, 10 * maxCount), 10 * maxCount>>

routes(fl) ==
    LET routeArray == routeMap(fl)
        maxCount == MaxOf({routeArray[i].count : i \in DOMAIN routeArray} \cup {1})
    IN [i \in DOMAIN routeArray |->
          [routeArray[i] EXCEPT !.opacity = Opacity(routeArray[i].count, maxCount)]]

\* ---------------------------------------------------------------- viewport
\* The zoom levels for a spread, in hundredths of a degree.
ZoomTier(maxSpread) ==
    IF maxSpread > Deg(120) THEN [minZoom |-> 2, maxZoom |-> 18, initialZoom |-> 2]
    ELSE IF maxSpread > Deg(60) THEN [minZoom |-> 2, maxZoom |-> 18, initialZoom |-> 3]
    ELSE IF maxSpread > Deg(30) THEN [minZoom |-> 3, maxZoom |-> 18, initialZoom |-> 4]
    ELSE IF maxSpread > Deg(10) THEN [minZoom |-> 4, maxZoom |-> 18, initialZoom |-> 5]
    ELSE [minZoom |-> 5, maxZoom |-> 18, initialZoom |-> 6]

\* Every coordinate of every route.
allRouteCoordinates(rts) ==
    UNION {{rts[i].coordinates[k] : k \in DOMAIN rts[i].coordinates} : i \in DOMAIN rts}

\* The first and the last coordinate of every route.
routeEndpoints(rts) ==
    UNION {{rts[i].coordinates[1], rts[i].coordinates[Len(rts[i].coordinates)]} :
             i \in {j \in DOMAIN rts : Len(rts[j].coordinates) >= 2}}

MaxSpread(coords) ==
    LET lats == {c[1] : c \in coords}
        lngs == {c[2] : c \in coords}
    IN Max(MaxOf(lats) - MinOf(lats), MaxOf(lngs) - MinOf(lngs))

zoomLevels(rts) ==
    IF Len(rts) = 0 THEN [minZoom |-> 2, maxZoom |-> 18, initialZoom |-> 2]
    ELSE LET coords == allRouteCoordinates(rts)
         IN IF coords = {} THEN [minZoom |-> 2, maxZoom |-> 18, initialZoom |-> 2]
            ELSE ZoomTier(MaxSpread(coords))

\* null
NoBounds == <<>>

\* The box around a set of points: <<south-west, north-east>>.
BoundsOf(points) ==
    LET lats == {c[1] : c \in points}
        lngs == {c[2] : c \in points}
        normalLngs == {lng \in lngs : lng >= -Deg(180) /\ lng <= Deg(180)}
        wrappedLngs == {lng \in lngs : lng < -Deg(180) \/ lng > Deg(180)}
        both == wrappedLngs # {} /\ normalLngs # {}
        minLng == IF both THEN Max(MinOf(normalLngs) - Deg(10), -Deg(180))
                  ELSE MinOf(lngs)
        maxLng == IF both THEN Min(MaxOf(wrappedLngs) + Deg(10), Deg(360))
                  ELSE MaxOf(lngs)
        latSpread == MaxOf(lats) - MinOf(lats)
        latPadding == Max(Min((latSpread * 15) \div 100, Deg(8)), Deg(2))
        lngPadding == Max(Min(((maxLng - minLng) * 5) \div 100, Deg(5)), Deg(2))
    IN <<<<MinOf(lats) - latPadding, minLng - lngPadding>>,
         <<MaxOf(lats) + latPadding, maxLng + lngPadding>>>>

\* Bounds that take in the samples of the curves too.
mapBoundsAllPoints(rts) ==
    IF Len(rts) = 0 THEN NoBounds
    ELSE LET coords == allRouteCoordinates(rts)
         IN IF coords = {} THEN NoBounds ELSE BoundsOf(coords)

mapBounds(rts) ==
    IF Len(rts) = 0 THEN NoBounds
    ELSE LET endpoints == routeEndpoints(rts)
         IN IF endpoints = {} THEN NoBounds ELSE BoundsOf(endpoints)

\* --------------------------------------------------------------- airports
\* processAirport(code), called for a flight
processAirport(map, code, flight) ==
    IF Known(code)
    THEN IF \E i \in DOMAIN map : map[i].code = code
         THEN [i \in DOMAIN map |->
                 IF map[i].code = code
                 THEN [map[i] EXCEPT !.flightCount = @ + 1]
                 ELSE map[i]]
         ELSE Append(map, [code |-> code,
                           displayCode |-> code,
                           lat |-> AIRPORT_COORDINATES[code][1],
                           lng |-> AIRPORT_COORDINATES[code][2],
                           flightCount |-> 1])
    ELSE map

RECURSIVE airportMap(_)
\* The first pass over the flights.
airportMap(fl) ==
    IF fl = <<>> THEN <<>>
    ELSE LET flight == fl[Len(fl)]
         IN processAirport(processAirport(airportMap(Front(fl)), flight.origin, flight),
                           flight.destination, flight)

\* The way west is the shorter one for this flight.
UsesWrapped(flight) ==
    /\ Known(flight.origin) /\ Known(flight.destination)
    /\ LET lng1 == AIRPORT_COORDINATES[flight.origin][2]
           lng2 == AIRPORT_COORDINATES[flight.destination][2]
           eastwardDistance == Abs(lng2 - lng1)
       IN Deg(360) - eastwardDistance < eastwardDistance

RECURSIVE wrappedAirports(_)
\* The destinations that need a wrapped marker, in insertion order.
wrappedAirports(fl) ==
    IF fl = <<>> THEN <<>>
    ELSE LET before == wrappedAirports(Front(fl))
             flight == fl[Len(fl)]
         IN IF UsesWrapped(flight)
               /\ ~\E i \in DOMAIN before : before[i] = flight.destination
            THEN Append(before, flight.destination)
            ELSE before

airports(fl) ==
    LET allAirports == airportMap(fl)
        bounds == mapBounds(routes(fl))
        wrappedLng(a) == IF a.lng < 0 THEN a.lng + Deg(360) ELSE a.lng - Deg(360)
        InBounds(lng) == lng >= bounds[1][2] /\ lng <= bounds[2][2]
        Original(code) == allAirports[CHOOSE i \in DOMAIN allAirports :
                                         allAirports[i].code = code]
        WrappedIn(code) == InBounds(wrappedLng(Original(code)))
        Inside(a) == InBounds(a.lng)
        wrappedCodes == SelectSeq(wrappedAirports(fl), WrappedIn)
        wrappedAirportData ==
            IF bounds = NoBounds THEN <<>>
            ELSE [i \in DOMAIN wrappedCodes |->
                    [Original(wrappedCodes[i]) EXCEPT
                       !.code = <<wrappedCodes[i], "wrapped">>,
                       !.lng = wrappedLng(Original(wrappedCodes[i]))]]
        filteredOriginalAirports ==
            IF bounds = NoBounds THEN allAirports ELSE SelectSeq(allAirports, Inside)
    IN filteredOriginalAirports \o wrappedAirportData

\* The routes that are drawn.
simplifiedRoutes(rts) ==
    IF isZooming \/ currentZoom < 3
    THEN LET Frequent(route) == route.count > 1
             kept == SelectSeq(rts, Frequent)
         IN SubSeq(kept, 1, Min(Len(kept), 20))
    ELSE rts

\* The flights a parent passes in: between airports of the table, among
\* them two on either side of the antimeridian, and one code the table
\* does not hold.
MaxFlights == 3
RouteCodes == {"LAX", "NRT", "NCE", "XXX"}
Flights(codes) == [origin : codes, destination : codes]

InitRoutes == ChatUnmounted /\ TimelineIdle

\* The parent passes a list that is one flight longer.
Submit(flight) ==
    /\ flights' = Append(flights, flight)
    /\ UNCHANGED <<from, to, path, isMapReady, isZooming, currentZoom>>
    /\ UNCHANGED <<initialZoom, mapZoom, mapMinZoom, timers, zoomTarget, zooms>>
    /\ UNCHANGED <<zoomHandlers, chatVars>>

NextRoutes ==
    \E flight \in Flights(RouteCodes) : Len(flights) < MaxFlights /\ Submit(flight)

SpecRoutes == InitRoutes /\ [][NextRoutes]_vars

\* Lists of flights between any airports of the table.  The spread and the
\* box are taken over the set of the points of the routes, so the lists are
\* explored up to the order of their flights: a flight is added when it
\* does not come before the last one in the order of the table.
MaxViewFlights == 2

AirportOrder ==
    <<"SIN", "CGK", "BOS", "SFO", "DXB", "HKG", "IST", "NCE", "LAX", "BLR",
      "MAA", "KNO", "BKK", "PEN", "ICN", "TPA", "ATL", "GRU", "FCO", "FRA",
      "MUC", "CDG", "TXL", "MXP", "AMS", "HNL", "NRT", "TOY">>

Rank(flight) ==
    LET At(code) == CHOOSE i \in DOMAIN AirportOrder : AirportOrder[i] = code
    IN At(flight.origin) * (Len(AirportOrder) + 1) + At(flight.destination)

InOrder(fl, flight) ==
    IF fl = <<>> THEN TRUE ELSE Rank(fl[Len(fl)]) <= Rank(flight)

NextViewport ==
    \E flight \in Flights(DOMAIN AIRPORT_COORDINATES) :
       /\ Len(flights) < MaxViewFlights
       /\ InOrder(flights, flight)
       /\ Submit(flight)

SpecViewport == InitRoutes /\ [][NextViewport]_vars

\* --------------------------------------------------------------- map view
\* The flights are passed in before the map is created.
MaxShown == 2
MaxZooms == 2
ViewMaxZoom == 4
ViewCodes == {"LAX", "NCE", "FRA", "DXB"}

\* The ready event of the map, which was created with the zoom and the
\* minimum zoom of zoomLevels.  fitBounds, not animated, leaves the map at
\* a zoom between the minimum and the maxZoom it is given; when that is
\* another zoom than before, the map fires zoomstart, zoom and zoomend
\* before fitBounds returns.  The timeout of 100 ms keeps the minZoom read
\* here.
onMapReady ==
    /\ ~isMapReady
    /\ isMapReady' = TRUE
    /\ LET levels == zoomLevels(routes(flights))
       IN IF mapBounds(routes(flights)) # NoBounds
          THEN /\ mapMinZoom' = levels.minZoom
               /\ initialZoom' = levels.initialZoom
               /\ zoomHandlers' = TRUE
               /\ \E fitted \in levels.minZoom..levels.initialZoom :
                     /\ mapZoom' = fitted
                     /\ IF fitted # levels.initialZoom
                        THEN /\ isZooming' = TRUE
                             /\ currentZoom' = fitted
                             /\ timers' = timers \cup {<<"fit", levels.minZoom>>,
                                                       <<"zoomend", 0>>}
                        ELSE /\ timers' = timers \cup {<<"fit", levels.minZoom>>}
                             /\ UNCHANGED <<isZooming, currentZoom>>
          ELSE /\ mapMinZoom' = levels.minZoom
               /\ mapZoom' = levels.initialZoom
               /\ UNCHANGED <<initialZoom, isZooming, currentZoom, timers, zoomHandlers>>
    /\ UNCHANGED <<from, to, path, flights, zoomTarget, zooms, chatVars>>

\* The timeout of 100 ms set by onMapReady.
FitTimer(id) ==
    /\ id \in timers
    /\ id[1] = "fit"
    /\ LET fittedZoom == mapZoom
           minZoom == id[2]
       IN /\ mapMinZoom' = Max(minZoom, fittedZoom - 1)
          /\ currentZoom' = fittedZoom
          /\ initialZoom' = fittedZoom
    /\ timers' = timers \ {id}
    /\ UNCHANGED <<from, to, path, flights, isMapReady, isZooming, mapZoom>>
    /\ UNCHANGED <<zoomTarget, zooms, zoomHandlers, chatVars>>

\* The user starts a zoom to z: the map fires zoomstart.
zoomstart(z) ==
    /\ isMapReady
    /\ zoomTarget = 0
    /\ z \in mapMinZoom..ViewMaxZoom
    /\ z # mapZoom
    /\ zoomTarget' = z
    /\ zooms' = zooms + 1
    /\ isZooming' = IF zoomHandlers THEN TRUE ELSE isZooming
    /\ UNCHANGED <<from, to, path, flights, isMapReady, currentZoom, initialZoom>>
    /\ UNCHANGED <<mapZoom, mapMinZoom, timers, zoomHandlers, chatVars>>

\* The map takes the new zoom and fires zoom.
zoom ==
    /\ zoomTarget # 0
    /\ mapZoom # zoomTarget
    /\ mapZoom' = zoomTarget
    /\ currentZoom' = IF zoomHandlers THEN zoomTarget ELSE currentZoom
    /\ UNCHANGED <<from, to, path, flights, isMapReady, isZooming, initialZoom>>
    /\ UNCHANGED <<mapMinZoom, timers, zoomTarget, zooms, zoomHandlers, chatVars>>

\* The zoom is over: the map fires zoomend.
zoomend ==
    /\ zoomTarget # 0
    /\ mapZoom = zoomTarget
    /\ zoomTarget' = 0
    /\ currentZoom' = IF zoomHandlers THEN mapZoom ELSE currentZoom
    /\ timers' = IF zoomHandlers THEN timers \cup {<<"zoomend", zooms>>} ELSE timers
    /\ UNCHANGED <<from, to, path, flights, isMapReady, isZooming, initialZoom>>
    /\ UNCHANGED <<mapZoom, mapMinZoom, zooms, zoomHandlers, chatVars>>

\* A timeout of 150 ms set by the handler of zoomend.
ZoomEndTimer(id) ==
    /\ id \in timers
    /\ id[1] = "zoomend"
    /\ isZooming' = FALSE
    /\ timers' = timers \ {id}
    /\ UNCHANGED <<from, to, path, flights, isMapReady, currentZoom, initialZoom>>
    /\ UNCHANGED <<mapZoom, mapMinZoom, zoomTarget, zooms, zoomHandlers, chatVars>>

NextView ==
    \/ \E flight \in Flights(ViewCodes) :
          ~isMapReady /\ Len(flights) < MaxShown /\ Submit(flight)
    \/ onMapReady
    \/ \E id \in timers : FitTimer(id)
    \/ \E z \in 1..ViewMaxZoom : zooms < MaxZooms /\ zoomstart(z)
    \/ zoom
    \/ zoomend
    \/ \E id \in timers : ZoomEndTimer(id)

SpecView == InitRoutes /\ [][NextView]_vars

\* ---------------------------------------------------------------- claims
\* What a step is, seen from tab t.
Handled(t) == Len(queue'[t]) < Len(queue[t])
Stamped(t) == clock'[t] # clock[t]
Failed(t) == pc[t] = "streaming" /\ pc'[t] = "failed"
ResolvedOk(t) ==
    \E i \in DOMAIN resolveReqs :
       /\ resolveReqs[i].tab = t
       /\ resolveReqs[i].answer = "pending"
       /\ resolveReqs'[i].answer = "ok"

Count(msgs, m) == Cardinality({i \in DOMAIN msgs : msgs[i] = m})
IsPrefix(s, r) == Len(s) <= Len(r) /\ SubSeq(r, 1, Len(s)) = s
Ids(msgs) == [i \in DOMAIN msgs |-> <<msgs[i].role, msgs[i].timestamp>>]
IsFallback(m) == m.role = "assistant" /\ m.content \in WITTY_MESSAGES

RECURSIVE IsSubseq(_, _)
IsSubseq(s, r) ==
    IF s = <<>> THEN TRUE
    ELSE IF r = <<>> THEN FALSE
    ELSE IF Head(s) = Head(r) THEN IsSubseq(Tail(s), Tail(r))
    ELSE IsSubseq(s, Tail(r))

RECURSIVE Concat(_)
Concat(records) ==
    IF records = <<>> THEN <<>> ELSE Head(records) \o Concat(Tail(records))

C2_ZeroBytesOneFallback ==
    [][\A t \in Tabs :
         (pc[t] = "streaming" /\ pc'[t] \in Returned /\ wire[t] = Encode(resp[t])) =>
            /\ Len(messages'[t]) = Len(messages[t]) + 1
            /\ Front(messages'[t]) = messages[t]
            /\ IsFallback(Last(messages'[t]))]_vars

\* C3: for one threadId, the /thread/resolve requests ever sent all come from
\* one tab.
C3_OneTabResolves ==
    \A i, j \in DOMAIN resolveReqs :
       resolveReqs[i].threadId = resolveReqs[j].threadId =>
          resolveReqs[i].tab = resolveReqs[j].tab

\* C4: once the users have stopped and no send or resolve is in progress, a
\* state is reached in which no storage notification is pending and the list
\* of every tab is the list stored under chatMessages.
StoredList == JSONparse(storage["chatMessages"]).value

Quiescent == \A t \in Tabs : queue[t] = <<>> /\ messages[t] = StoredList

C4_EventualConvergence == stopped ~> Quiescent

\* C5: while the body is read, whatever the chunks were, the content
\* assembled so far is the concatenation of the contents of the first k
\* records and the buffer holds the part read of record k+1; when the whole
\* body is read the content is the concatenation of all the records' contents
\* and it is the content of the assistant message.
C5_ChunkingIndependent ==
    \A t \in Tabs :
       pc[t] = "streaming" =>
          /\ \E k \in 0..Len(resp[t]) :
                /\ currentAssistantContent[t] = Concat(SubSeq(resp[t], 1, k))
                /\ buffer[t] \o wire[t] = Encode(SubSeq(resp[t], k + 1, Len(resp[t])))
          /\ wire[t] = <<>> =>
                /\ currentAssistantContent[t] = Concat(resp[t])
                /\ assistantMessageAdded[t] <=> Concat(resp[t]) # <<>>
                /\ assistantMessageAdded[t] =>
                      Last(messages[t]).content = Concat(resp[t])

C5_SplitInsideRecord ==
    \E t \in Tabs :
       /\ pc[t] = "streaming"
       /\ Len(currentAssistantContent[t]) = 1
       /\ buffer[t] # <<>>
       /\ Last(buffer[t]) # "}"
       /\ wire[t] # <<>>

\* C6: loading is true exactly while a sendMessage call is in progress: it
\* is false before the first call, true from the call to the end of the
\* request, and false again however the request ended.
C6_LoadingWhileSending ==
    \A t \in Tabs : loading[t] <=> pc[t] \in {"fetching", "streaming"}

C6_BackToIdle ==
    \E t \in Tabs : pc[t] = "failed" /\ assistantMessageAdded[t] /\ ~loading[t]

C8_OwnStepsAppend ==
    [][\A t \in Tabs :
         (~Handled(t) /\ ~ResolvedOk(t)) =>
            IsPrefix(Ids(messages[t]), Ids(messages'[t]))]_vars

C8_Appended ==
    \E t \in Tabs :
       /\ IsPrefix(Conversation, messages[t])
       /\ Len(messages[t]) = Len(Conversation) + 3
       /\ Last(messages[t]).content = FAILED_TO_END

\* C8 (as claimed): while no resolve is answered OK and the tab's threadId is
\* not cleared, the messages of a tab's list, identified by role and
\* timestamp, stay in the list in the same order.
C8_AppendOnly ==
    [][\A t \in Tabs :
         (threadId[t] # NONE /\ threadId'[t] # NONE /\ \A u \in Tabs : ~ResolvedOk(u)) =>
            IsSubseq(Ids(messages[t]), Ids(messages'[t]))]_vars

Malformed(v) == v.kind = "str"

C15_Antimeridian ==
    path # <<>> =>
       LET adj == AdjustedLng2(from, to)
           westward == Deg(360) - Abs(to[2] - from[2]) < Abs(to[2] - from[2])
       IN /\ westward => adj \in {to[2] - Deg(360), to[2] + Deg(360)}
          /\ ~westward => adj = to[2]
          /\ Abs(adj - from[2]) <= Deg(180)
          /\ Last(path) = <<to[1], adj>>
          /\ Abs(ControlPoint(from, to)[2] - from[2]) <= Deg(360)

C15_ShiftedWest ==
    /\ path # <<>>
    /\ Len(path) > 2
    /\ to[2] > from[2]
    /\ Last(path)[2] = to[2] - Deg(360)

\* C18 (as amended): for a pair at distance 5 or more createCurvedPath
\* returns segments + 1 points, segments being floor(distance / 10) kept
\* within 3 and 8, that is 4 to 9 points; for a nearer pair it returns the
\* origin and the adjusted destination.
C18_SegmentsPlusOne ==
    path # <<>> =>
       IF Distance2(from, to) < Deg(5) * Deg(5)
       THEN path = <<from, AdjustedTo(from, to)>>
       ELSE /\ Len(path) = Segments(from, to) + 1
            /\ Len(path) \in 4..9
            /\ path[1] = from
            /\ Last(path) = AdjustedTo(from, to)

C18_NinePoints == Len(path) = 9 /\ Distance(from, to) >= Deg(80)

\* C18 (as claimed): for a pair at distance 5 or more the path has between
\* 3 and 8 points; for a nearer pair it has two.
C18_ThreeToEight ==
    path # <<>> =>
       IF Distance2(from, to) < Deg(5) * Deg(5)
       THEN Len(path) = 2
       ELSE Len(path) \in 3..8

\* The flights submitted between a and b, in either direction, and the
\* routes that join a and b.
Between(fl, a, b) ==
    {i \in DOMAIN fl : {fl[i].origin, fl[i].destination} = {a, b}}
Joining(rts, a, b) == {i \in DOMAIN rts : {rts[i].from, rts[i].to} = {a, b}}

\* C12: for every two known airports, the flights between them in either
\* direction are gathered in exactly one route, whose count and whose list
\* of flights both number the flights submitted between the two, in whatever
\* order the flights were submitted.
C12_BidirectionalMerge ==
    LET rts == routes(flights)
    IN \A a \in DOMAIN AIRPORT_COORDINATES, b \in DOMAIN AIRPORT_COORDINATES :
          LET n == Cardinality(Between(flights, a, b))
              joined == Joining(rts, a, b)
          IN IF n = 0 THEN joined = {}
             ELSE /\ Cardinality(joined) = 1
                  /\ \A i \in joined :
                        /\ rts[i].count = n
                        /\ Len(rts[i].flights) = n

\* Three flights between two airports, flown in both directions, are one
\* route of count three.
C12_BothDirectionsMerged ==
    LET rts == routes(flights)
    IN \E i \in DOMAIN rts :
          /\ rts[i].count = 3
          /\ \E j, k \in DOMAIN rts[i].flights :
                /\ rts[i].flights[j].origin # rts[i].flights[j].destination
                /\ rts[i].flights[j].origin = rts[i].flights[k].destination
                /\ rts[i].flights[j].destination = rts[i].flights[k].origin

\* The flights both of whose airports are in the table.
Valid(fl) == LET Both(flight) == ~Skipped(flight) IN SelectSeq(fl, Both)

\* C13: a flight with an airport that the table does not hold adds nothing
\* to the routes and nothing to the airports: both are what they would be
\* had the flight not been submitted.
C13_UnknownContributesNothing ==
    /\ routes(flights) = routes(Valid(flights))
    /\ airports(flights) = airports(Valid(flights))

\* Opacities are <<numerator, denominator>> with a positive denominator.
OpacityLeq(p, q) == p[1] * q[2] <= q[1] * p[2]

\* C14: among the routes of one aggregation a route flown no more often
\* than another is no more opaque than it, and every opacity lies between
\* 0.3 and 1.0.
C14_OpacityMonotoneBounded ==
    LET rts == routes(flights)
    IN /\ \A i, j \in DOMAIN rts :
             rts[i].count <= rts[j].count => OpacityLeq(rts[i].opacity, rts[j].opacity)
       /\ \A i \in DOMAIN rts :
             /\ OpacityLeq(<<3, 10>>, rts[i].opacity)
             /\ OpacityLeq(rts[i].opacity, <<1, 1>>)

\* A route flown once beside a route flown twice: opacities 0.65 and 1.0.
C14_TwoFrequencies ==
    LET rts == routes(flights)
    IN \E i, j \in DOMAIN rts :
          /\ rts[i].count = 1 /\ rts[j].count = 2
          /\ rts[i].opacity = <<13, 20>>
          /\ rts[j].opacity = <<20, 20>>

\* C17: when there is a route, the box of mapBounds has its south-west
\* corner at or below its north-east corner in latitude and in longitude,
\* and holds every endpoint of every route, shifted destinations included,
\* with between 2 and 8 degrees of latitude to spare.
C17_PaddedBox ==
    LET rts == routes(flights)
        box == mapBounds(rts)
        endpoints == routeEndpoints(rts)
        lats == {e[1] : e \in endpoints}
    IN Len(rts) > 0 =>
          /\ box # NoBounds
          /\ box[1][1] <= box[2][1]
          /\ box[1][2] <= box[2][2]
          /\ \A e \in endpoints :
                /\ box[1][1] <= e[1] /\ e[1] <= box[2][1]
                /\ box[1][2] <= e[2] /\ e[2] <= box[2][2]
          /\ MinOf(lats) - box[1][1] \in Deg(2)..Deg(8)
          /\ box[2][1] - MaxOf(lats) \in Deg(2)..Deg(8)

\* The routes with the samples between their endpoints taken away.
Straight(rts) ==
    [i \in DOMAIN rts |->
       [rts[i] EXCEPT !.coordinates = <<@[1], @[Len(@)]>>]]

Rendered ==
    IF isMapReady /\ ~isZooming THEN simplifiedRoutes(routes(flights)) ELSE <<>>

\* C19: when the map is ready, no zoom is in progress, no timeout is
\* pending and the map is at the initial zoom of zoomLevels, every route is
\* drawn, the routes flown once included.
C19_AllRoutesAtInitialView ==
    (/\ isMapReady
     /\ ~isZooming
     /\ zoomTarget = 0
     /\ timers = {}
     /\ mapZoom = zoomLevels(routes(flights)).initialZoom)
        => Rendered = routes(flights)

\* The resolve request of tab t fails in this step.
ResolveFailed(t) ==
    \E i \in DOMAIN resolveReqs :
       /\ resolveReqs[i].tab = t
       /\ resolveReqs[i].answer = "pending"
       /\ resolveReqs'[i].answer = "failed"

\* endChat would get past its guard in tab t.
CanEndChat(t) ==
    /\ isClient[t] /\ ~isInitialLoading[t]
    /\ ~(isEndingChat[t] \/ showFeedbackModal[t] \/ threadId[t] = NONE)

\* What a failed resolve request leaves alone and what it resets: the
\* threadId of the tab and of the storage, the modal, isEndingChat.
FailedEndKeepsSession(t) ==
    /\ threadId'[t] = threadId[t]
    /\ storage'["threadId"] = storage["threadId"]
    /\ messages'[t] = Append(messages[t], Last(messages'[t]))
    /\ Last(messages'[t]).role = "assistant"
    /\ Last(messages'[t]).content = FAILED_TO_END
    /\ ~showFeedbackModal'[t]
    /\ ~isEndingChat'[t]

\* C20 (as amended): when the resolve request fails, the threadId of the tab
\* and the threadId key are unchanged, one assistant message "Failed to end
\* chat session. Please try again." is appended, the chatMessages key is not
\* removed but written again with the tab's list, that message included, the
\* modal is closed, isEndingChat is false again, and endChat is possible in
\* the tab if it still has a threadId.
C20_FailedEndRecoverable ==
    [][\A t \in Tabs :
         ResolveFailed(t) =>
            /\ FailedEndKeepsSession(t)
            /\ storage'["chatMessages"] = JSONstringify(messagesToSave(messages'[t]))
            /\ storage'["chatMessages"] # storage["chatMessages"]
            /\ (threadId[t] # NONE => CanEndChat(t)')]_vars

\* A tab whose resolve request failed: the message is the last of its list
\* and of the stored list, and endChat is possible again.
C20_FailedThenPossible ==
    \E i \in DOMAIN resolveReqs :
       LET t == resolveReqs[i].tab
       IN /\ resolveReqs[i].answer = "failed"
          /\ messages[t] # <<>>
          /\ Last(messages[t]).content = FAILED_TO_END
          /\ storage["chatMessages"] = JSONstringify(messages[t])
          /\ CanEndChat(t)

\* C20 (as stated): when the resolve request fails, the threadId of the tab
\* and the threadId and chatMessages keys are unchanged, the message is
\* appended, the modal is closed, isEndingChat is false again and endChat is
\* possible in the tab.
C20_FailedEndStorageUnchanged ==
    [][\A t \in Tabs :
         ResolveFailed(t) =>
            /\ FailedEndKeepsSession(t)
            /\ storage'["chatMessages"] = storage["chatMessages"]
            /\ CanEndChat(t)']_vars

\* ------------------------------------------------------------ zoom flag
\* A zoom is in progress: zoomstart was handled, the matching zoomend not yet.
ZoomInProgress == zoomHandlers /\ zoomTarget # 0

\* C30 (as stated): isZooming is true in every state between a zoomstart
\* event and the matching zoomend event; the timeout set by an earlier
\* zoomend never sets it to false while a later zoom is in progress.
C30_ZoomingWhileZoomInProgress == ZoomInProgress => isZooming

\* ----------------------------------------------------------- statistics
\* statistics.airportsVisited
airportsVisited(fl) == Len(airports(fl))

\* The known airport codes that occur as origin or destination of a flight.
KnownCodes(fl) ==
    {code \in {fl[i].origin : i \in DOMAIN fl} \cup {fl[i].destination : i \in DOMAIN fl} :
        Known(code)}

\* C29 (as stated): airportsVisited is the number of distinct known airport
\* codes that occur as origin or destination of the flights; no airport is
\* counted twice and none is left out because of the longitude bounds.
C29_AirportsVisitedDistinct == airportsVisited(flights) = Cardinality(KnownCodes(flights))

NoEndFlow == \A t \in Tabs : ~showFeedbackModal[t] /\ ~isEndingChat[t]

\* Every storage event dispatched has been handled.
Delivered == \A t \in Tabs : queue[t] = <<>>

\* C25 (as stated): once the end flow has finished (by closeFeedbackModal, by
\* a failed resolve or by a successful one) and every notification is
\* delivered, the chatEnding flag is cleared.
C25_FlagClearedAfterFlow == (NoEndFlow /\ Delivered) => storage["chatEnding"] = Null

\* ----------------------------------------------------- thread id agreement
\* SpecThreads: sendMessage calls.
MaxThreadSends == 2

\* The thread ids the chat endpoint hands out to requests that name none.
NewThreadIds == {"T1", "T2"}

\* Two mounted tabs without a thread send their first messages.  A response
\* to a tab that has no thread carries the id of the thread the endpoint
\* created for it, a response to a tab that has one carries that id; the
\* bodies are empty.
NextThreads ==
    \/ \E t \in Tabs, text \in UserTexts : sends < MaxThreadSends /\ SendStart(t, text)
    \/ \E t \in Tabs, header \in NewThreadIds :
          threadId[t] \in {NONE, header} /\ FetchOk(t, header, <<>>)
    \/ \E t \in Tabs : ReadDone(t)
    \/ \E t \in Tabs : handleStorageChange(t)

SpecThreads == InitFair /\ [][NextThreads]_vars

\* C24 (as stated): whenever no storage notification is pending, the
\* threadId of every mounted tab equals the value stored under the threadId
\* key (null when the key is absent).
C24_ThreadIdAgreement ==
    Delivered =>
       \A t \in Tabs : isClient[t] => threadId[t] = FromStored(storage["threadId"])

\* ------------------------------------------------- deltas and peer writes
\* SpecOverwrite: sendMessage calls, and records per response.
MaxOverwriteSends == 2
MaxOverwriteRecords == 2

\* Two mounted tabs send.  The requests of tab StreamTab are answered with up
\* to MaxOverwriteRecords records, read line by line; those of its peer fail.
\* The tabs handle each other's storage events between the reads.
NextOverwrite ==
    \/ \E t \in Tabs, text \in UserTexts : sends < MaxOverwriteSends /\ SendStart(t, text)
    \/ \E t \in Tabs \ {StreamTab}, witty \in OneWitty : FetchFail(t, witty)
    \/ \E records \in Responses({<<"a">>}, MaxOverwriteRecords) :
          FetchOk(StreamTab, NONE, records)
    \/ \E n \in LineAligned(wire[StreamTab]) : ReadChunk(StreamTab, n)
    \/ ReadDone(StreamTab)
    \/ \E t \in Tabs : handleStorageChange(t)

SpecOverwrite == InitFair /\ [][NextOverwrite]_vars

\* Tab t reads a chunk of its response.
ReadsChunk(t) == pc[t] = "streaming" /\ pc'[t] = "streaming" /\ wire'[t] # wire[t]

\* Message i of tab t is the assistant message its sendMessage call created:
\* the last message the tab has stamped.
CreatedByCall(t, i) ==
    /\ assistantMessageAdded[t]
    /\ messages[t][i].role = "assistant"
    /\ messages[t][i].timestamp = Now(t, clock[t] - 1)

\* C23 (as stated): while a tab is streaming, a delta is written only into
\* the assistant message that this sendMessage call created; no other message
\* of the list is overwritten, also when the list was replaced by a storage
\* notification between two chunks.
C23_DeltaIntoOwnMessage ==
    [][\A t \in Tabs :
         ReadsChunk(t) =>
            \A i \in DOMAIN messages[t] :
               (i \in DOMAIN messages'[t] /\ messages'[t][i] # messages[t][i])
                  => CreatedByCall(t, i)]_vars

\* -------------------------------------------------- lines of the response
\* SpecLines: sendMessage calls, and records per response.
MaxLineSends == 1
MaxLineRecords == 2

\* The records of a response of SpecLines: a delta with content "a", a delta
\* whose content is the text of a fallback message, and the two lines the
\* loop cannot take a delta from.
LineRecords == {<<"a">>, <<"W">>, NOT_JSON, NO_CHOICES}

\* The texts of a body that carries the records: every record ends with a
\* line end, or every record but the last one does.
Bodies(records) ==
    {Encode(records)} \cup
       (IF records = <<>> THEN {} ELSE {Front(Encode(records))})

\* One tab alone; the lines of the response are any of LineRecords, and the
\* body is cut into chunks at any place.
NextLines ==
    \/ Mount(StreamTab)
    \/ \E text \in UserTexts : sends < MaxLineSends /\ SendStart(StreamTab, text)
    \/ \E records \in Responses(LineRecords, MaxLineRecords) :
          \E body \in Bodies(records) : Respond(StreamTab, NONE, records, body)
    \/ \E n \in 1..Len(wire[StreamTab]) : ReadChunk(StreamTab, n)
    \/ ReadDone(StreamTab)

SpecLines == Init /\ [][NextLines]_vars

\* The content the delta of a record holds: none when the line of the record
\* is not JSON or has no choices array.
DeltaOf(record) ==
    IF \A i \in DOMAIN record : record[i] \in ReplyChars THEN record ELSE <<>>

Deltas(records) == [i \in DOMAIN records |-> DeltaOf(records[i])]

\* The whole body of tab t's response is read and its last line was ended.
AllLinesRead(t) == pc[t] = "streaming" /\ wire[t] = <<>> /\ buffer[t] = <<>>

\* C26: a line that is not JSON, or that has no choices array, is skipped
\* without aborting the stream: when all lines are read the content is the
\* concatenation of the deltas of the other lines; if it is not empty it is
\* the content of the assistant message that follows the user message of the
\* call, and otherwise the user message is the last one: no further message
\* (no fallback) was added.
C26_BadLinesSkipped ==
    \A t \in Tabs :
       AllLinesRead(t) =>
          LET content == Concat(Deltas(resp[t]))
              n == Len(messages[t])
          IN /\ currentAssistantContent[t] = content
             /\ assistantMessageAdded[t] <=> content # <<>>
             /\ n = clock[t]
             /\ IF content = <<>>
                THEN messages[t][n] = Msg("user", <<"a">>, Now(t, n - 1))
                ELSE /\ messages[t][n] = Msg("assistant", content, Now(t, n - 1))
                     /\ messages[t][n - 1] = Msg("user", <<"a">>, Now(t, n - 2))

\* A response whose first line is not JSON, or has no choices array, and
\* whose second line is a record: the content of the record is the reply.
C26_ValidAfterBad ==
    /\ AllLinesRead(StreamTab)
    /\ resp[StreamTab] \in {<<NOT_JSON, <<"a">>>>, <<NO_CHOICES, <<"a">>>>}
    /\ Last(messages[StreamTab]).content = <<"a">>
    /\ Len(messages[StreamTab]) = 2

\* Tab t's reader reports done: the loop is left and sendMessage returns.
StreamEnds(t) == pc[t] = "streaming" /\ pc'[t] = "done"

\* C27 (as stated): no record is lost at the end of the stream; when the
\* stream ends normally the content is the concatenation of the deltas of all
\* the records of the response, the last one included when no line end
\* follows it.
C27_NoRecordLostAtEnd ==
    [][\A t \in Tabs :
         StreamEnds(t) => currentAssistantContent'[t] = Concat(Deltas(resp[t]))]_vars

\* C28 (as stated): the reply the agent streamed, whatever its words, and the
\* user message it answers are written to chatMessages: after a call that
\* ended normally the stored list is the list of the tab.
C28_GenuineReplyStored ==
    \A t \in Tabs :
       (pc[t] = "done" /\ assistantMessageAdded[t]) => StoredList = messages[t]

\* ---------------------------------------------------- initial history load
\* SpecLoad: sendMessage calls.
MaxLoadSends == 1

\* What /thread/listMessages answers for thread T1: no message, or the
\* exchange of the session.
Histories ==
    {<<>>, <<[role |-> "user", content |-> <<"a">>],
             [role |-> "assistant", content |-> <<"a">>]>>}

\* No tab is open yet.
InitLoad ==
    /\ ChatUnmounted
    /\ TimelineIdle

\* The store as the tabs find it when the page is opened: a thread is stored
\* or not, and chatMessages is absent, empty or holds the session.
StoreAtOpen ==
    [chatMessages : {Null, JSONstringify(<<>>), JSONstringify(Conversation)},
     threadId : {Null, Str("T1")},
     chatEnding : {Null}]

\* The store of the origin before the first tab mounts: what an earlier
\* visit, or anything else that writes to the origin's localStorage, left.
Open(store) ==
    /\ \A t \in Tabs : ~isClient[t]
    /\ storage = EmptyStorage
    /\ store # EmptyStorage
    /\ storage' = store
    /\ UNCHANGED <<queue, clock, isClient, listening, isInitialLoading, messages>>
    /\ UNCHANGED <<loading, threadId, pc, resolveReqs, listReqs>>
    /\ UNCHANGED <<sendLocals, endVars, counters>>
    /\ UNCHANGED mapVars

\* Tabs that open on such a store, load the history where they have to, send
\* and handle each other's events.
NextLoad ==
    \/ \E store \in StoreAtOpen : Open(store)
    \/ \E t \in Tabs : Mount(t)
    \/ \E t \in Tabs, data \in Histories : LoadOk(t, data)
    \/ \E t \in Tabs : LoadFail(t)
    \/ \E t \in Tabs, text \in UserTexts : sends < MaxLoadSends /\ SendStart(t, text)
    \/ \E t \in Tabs, witty \in OneWitty : FetchFail(t, witty)
    \/ \E t \in Tabs : handleStorageChange(t)

SpecLoad == InitLoad /\ [][NextLoad]_vars

\* Tab t sends a listMessages request in this step.
Requests(t) ==
    /\ Len(listReqs') = Len(listReqs) + 1
    /\ Last(listReqs').tab = t

\* Tab t mounts in this step.
Mounts(t) == ~isClient[t] /\ isClient'[t]

\* Tab t's listMessages request rejects or is answered with a status that is
\* not OK in this step.
LoadFails(t) ==
    \E i \in DOMAIN listReqs :
       /\ listReqs[i].tab = t
       /\ listReqs[i].answer = "pending"
       /\ listReqs'[i].answer = "failed"

\* C21: a tab requests /thread/listMessages exactly in the step in which it
\* mounts on a store that holds a threadId and no chatMessages value, for
\* that thread and never a second time; and when the request rejects or is
\* answered with a status that is not OK the tab ends the step with threadId
\* null, the threadId key removed and isInitialLoading false.
C21_InitialLoad ==
    [][\A t \in Tabs :
         /\ Requests(t) <=>
               /\ Mounts(t)
               /\ storage["threadId"] # Null
               /\ storage["chatMessages"] = Null
         /\ Requests(t) =>
               /\ Last(listReqs').threadId = FromStored(storage["threadId"])
               /\ \A i \in DOMAIN listReqs : listReqs[i].tab # t
               /\ isInitialLoading'[t]
         /\ LoadFails(t) =>
               /\ threadId'[t] = NONE
               /\ storage'["threadId"] = Null
               /\ ~isInitialLoading'[t]
               /\ Len(listReqs') = Len(listReqs)]_vars

\* A tab whose request failed: it is mounted without a thread, the threadId
\* key is gone and the loading is over, while its peer mounted on a store
\* with a chatMessages value and sent no request.
C21_LoadFailed ==
    \E i \in DOMAIN listReqs :
       LET t == listReqs[i].tab
       IN /\ listReqs[i].answer = "failed"
          /\ listReqs[i].threadId = "T1"
          /\ Len(listReqs) = 1
          /\ \A u \in Tabs : isClient[u] /\ ~isInitialLoading[u] /\ threadId[u] = NONE
          /\ storage["threadId"] = Null
====
